---- MODULE Spec2Model ----
(***************************************************************************)
(* The 2048 engine (class Game) as a state machine: the grid, the score,   *)
(* the bounded undo history and the win/lose state, driven by init, move,  *)
(* undo, continueGame, serialize and deserialize.                          *)
(*                                                                         *)
(* Indices are 1-based here (rows, columns, merge positions); the source   *)
(* is 0-based.  Math.random() is an input of init and move: a sample p     *)
(* stands for the value p/100 of Math.random().                           *)
(***************************************************************************)
EXTENDS Integers, Sequences, FiniteSets, TLC

(* ---------------------------------------------------------------------- *)
(* Program constants                                                       *)
(* ---------------------------------------------------------------------- *)
size == 4

maxHistory == 20

WinTile == 2048

(* ---------------------------------------------------------------------- *)
(* Bounds of the exploration                                               *)
(* ---------------------------------------------------------------------- *)
\* length of the scripted game that is played move by move from init
ScriptLen == 25

\* calls made before or after the scripted game
MaxCalls == 3

\* the draws of Math.random() (in hundredths) tried for every new tile: the
\* draw that picks the cell, the draw that picks the value
RandomDraws == {<<0, 0>>, <<95, 95>>}

Directions == {"left", "up", "right", "down"}

(* ---------------------------------------------------------------------- *)
(* Grid helpers                                                            *)
(* ---------------------------------------------------------------------- *)
Idx == 1..size

\* a function over 1..n as an explicit tuple
Array(f) == f \o <<>>

EmptyGrid == Array([r \in Idx |-> Array([c \in Idx |-> 0])])

\* grid.map(row => [...row]): a copy with the same contents
cloneGrid(g) == Array([r \in 1..Len(g) |-> Array([c \in 1..Len(g[r]) |-> g[r][c]])])

\* the cells of the double loop "for r ... for c ...", in its order
CellOrder ==
  Array([k \in 1..(size * size) |-> <<((k - 1) \div size) + 1, ((k - 1) % size) + 1>>])

\* the list `empty` that addRandomTile collects
EmptyCells(g) == SelectSeq(CellOrder, LAMBDA rc : g[rc[1]][rc[2]] = 0)

NoTile == [none |-> TRUE]

\* mutant of addRandomTile: the rare tile is a 6
addRandomTileRareSix(g, pc, pv) ==
  LET empty == EmptyCells(g)
  IN  IF Len(empty) = 0
      THEN [grid |-> g, tile |-> NoTile]
      ELSE LET cell  == empty[((pc * Len(empty)) \div 100) + 1]
               value == IF pv < 90 THEN 2 ELSE 6
           IN  [grid |-> [g EXCEPT ![cell[1]][cell[2]] = value],
                tile |-> [none |-> FALSE, r |-> cell[1], c |-> cell[2], value |-> value]]

\* mutant of addRandomTile: the tile goes to the first cell, empty or not
addRandomTileFirstCell(g, pc, pv) ==
  LET value == IF pv < 90 THEN 2 ELSE 4
  IN  [grid |-> [g EXCEPT ![1][1] = value],
       tile |-> [none |-> FALSE, r |-> 1, c |-> 1, value |-> value]]

\* addRandomTile with the two Math.random() draws pc and pv (hundredths)
addRandomTile(g, pc, pv) ==
  LET empty == EmptyCells(g)
  IN  IF Len(empty) = 0
      THEN [grid |-> g, tile |-> NoTile]
      ELSE LET cell  == empty[((pc * Len(empty)) \div 100) + 1]
               value == IF pv < 90 THEN 2 ELSE 4
           IN  [grid |-> [g EXCEPT ![cell[1]][cell[2]] = value],
                tile |-> [none |-> FALSE, r |-> cell[1], c |-> cell[2], value |-> value]]

RECURSIVE slideFrom(_, _, _)
\* the loop of slideRow over the compacted row, from index i on
slideFrom(filtered, i, acc) ==
  IF i > Len(filtered)
  THEN acc
  ELSE IF i + 1 <= Len(filtered) /\ filtered[i] = filtered[i + 1]
       THEN LET mergedVal == filtered[i] * 2
            IN  slideFrom(filtered, i + 2,
                          [row            |-> Append(acc.row, mergedVal),
                           merged         |-> Append(acc.merged, mergedVal),
                           scoreGain      |-> acc.scoreGain + mergedVal,
                           mergePositions |-> Append(acc.mergePositions, Len(acc.row) + 1)])
       ELSE slideFrom(filtered, i + 1, [acc EXCEPT !.row = Append(@, filtered[i])])

InSeq(x, s) == \E i \in 1..Len(s) : s[i] = x

\* mutant of slideRow: the gain is subtracted instead of added
slideRowGainSubtracted(row) ==
  LET filtered == SelectSeq(row, LAMBDA v : v # 0)
      res      == slideFrom(filtered, 1,
                            [row |-> <<>>, merged |-> <<>>, scoreGain |-> 0,
                             mergePositions |-> <<>>])
  IN  [res EXCEPT !.row =
             Array([c \in 1..Len(row) |-> IF c <= Len(res.row) THEN res.row[c] ELSE 0]),
                  !.scoreGain = 0 - @]

\* mutant of slideRow: the merged row is scanned for pairs a second time
slideRowMergesAgain(row) ==
  LET start    == [row |-> <<>>, merged |-> <<>>, scoreGain |-> 0, mergePositions |-> <<>>]
      once     == slideFrom(SelectSeq(row, LAMBDA v : v # 0), 1, start)
      res      == slideFrom(once.row, 1, start)
  IN  [row            |-> Array([c \in 1..Len(row) |->
                                  IF c <= Len(res.row) THEN res.row[c] ELSE 0]),
       merged         |-> once.merged \o res.merged,
       scoreGain      |-> once.scoreGain + res.scoreGain,
       mergePositions |-> res.mergePositions]

\* mutant of slideRow: a merge scores the value of one tile of the pair
slideRowScoresOneTile(row) ==
  LET filtered == SelectSeq(row, LAMBDA v : v # 0)
      res      == slideFrom(filtered, 1,
                            [row |-> <<>>, merged |-> <<>>, scoreGain |-> 0,
                             mergePositions |-> <<>>])
  IN  [res EXCEPT !.row =
             Array([c \in 1..Len(row) |-> IF c <= Len(res.row) THEN res.row[c] ELSE 0]),
                  !.scoreGain = @ \div 2]

\* mutant of slideRow: a merged cell keeps the value of one tile of the pair
slideRowMergeKeepsValue(row) ==
  LET filtered == SelectSeq(row, LAMBDA v : v # 0)
      res      == slideFrom(filtered, 1,
                            [row |-> <<>>, merged |-> <<>>, scoreGain |-> 0,
                             mergePositions |-> <<>>])
  IN  [res EXCEPT !.row =
             Array([c \in 1..Len(row) |->
                      IF c > Len(res.row) THEN 0
                      ELSE IF InSeq(c, res.mergePositions) THEN res.row[c] \div 2
                           ELSE res.row[c]])]

\* mutant of slideRow: the zeros are padded in front of the tiles
slideRowPadsInFront(row) ==
  LET filtered == SelectSeq(row, LAMBDA v : v # 0)
      res      == slideFrom(filtered, 1,
                            [row |-> <<>>, merged |-> <<>>, scoreGain |-> 0,
                             mergePositions |-> <<>>])
      pad      == Len(row) - Len(res.row)
  IN  [res EXCEPT !.row =
             Array([c \in 1..Len(row) |-> IF c > pad THEN res.row[c - pad] ELSE 0])]

\* slide and merge one row to the left
slideRow(row) ==
  LET filtered == SelectSeq(row, LAMBDA v : v # 0)
      res      == slideFrom(filtered, 1,
                            [row |-> <<>>, merged |-> <<>>, scoreGain |-> 0,
                             mergePositions |-> <<>>])
  IN  [res EXCEPT !.row =
             Array([c \in 1..Len(row) |-> IF c <= Len(res.row) THEN res.row[c] ELSE 0])]

\* mutant of rotateGrid: the source column is the target column
rotateGridWrongColumn(g) ==
  LET n == Len(g)
  IN  Array([i \in 1..n |-> Array([j \in 1..n |-> g[n + 1 - j][j]])])

\* rotated[c][n - 1 - r] = grid[r][c]: a clockwise quarter turn
rotateGrid(g) ==
  LET n == Len(g)
  IN  Array([i \in 1..n |-> Array([j \in 1..n |-> g[n + 1 - j][i]])])

RECURSIVE rotateTimes(_, _)
rotateTimes(g, times) == IF times = 0 THEN g ELSE rotateTimes(rotateGrid(g), times - 1)

\* mutant of rotations: the counts of up and down are exchanged
rotationsUpDownExchanged(direction) ==
  CASE direction = "left"  -> 0
    [] direction = "up"    -> 1
    [] direction = "right" -> 2
    [] direction = "down"  -> 3

rotations(direction) ==
  CASE direction = "left"  -> 0
    [] direction = "up"    -> 3
    [] direction = "right" -> 2
    [] direction = "down"  -> 1

\* const unrot = (4 - rotations) % 4
inverseRotations(rot) == (4 - rot) % 4

\* mutant of canMove: the scan for equal neighbours is missing
canMoveEmptyOnly(g) == \E r \in Idx, c \in Idx : g[r][c] = 0

\* is any move possible: an empty cell, or two equal neighbours
canMove(g) ==
  \/ \E r \in Idx, c \in Idx : g[r][c] = 0
  \/ \E r \in Idx, c \in Idx :
        \/ c + 1 <= size /\ g[r][c + 1] = g[r][c]
        \/ r + 1 <= size /\ g[r + 1][c] = g[r][c]

RECURSIVE Flatten(_)
Flatten(ss) == IF ss = <<>> THEN <<>> ELSE Head(ss) \o Flatten(Tail(ss))

RECURSIVE Sum(_)
Sum(s) == IF s = <<>> THEN 0 ELSE Head(s) + Sum(Tail(s))

HasTile(g, v) == \E r \in 1..Len(g) : InSeq(v, g[r])

\* the number of tiles on g
TileCount(g) == Len(SelectSeq(Flatten(g), LAMBDA v : v # 0))

(* ---------------------------------------------------------------------- *)
(* State                                                                   *)
(* ---------------------------------------------------------------------- *)
VARIABLES
  grid,        \* this.grid
  score,       \* this.score
  bestScore,   \* this.bestScore
  history,     \* this.history, oldest first
  gameState,   \* this.gameState: "playing" | "won" | "lost"
  wonBefore,   \* this.wonBefore
  moveId,      \* this.moveId
  call,        \* the last call made on the engine and what it returned
  run,         \* history variable: the pre-move snapshots of the successful
               \* moves made since init, while nothing else has been called
  continued,   \* history variable: continueGame has left 'won' and only
               \* moves have been called since
  played,      \* steps of the scripted game made so far (init is the first)
  onScript,    \* no call off the script has been made yet
  nCalls,      \* calls made off the script
  app          \* the App around the engine: renderer.animating, input.locked,
               \* the move result being animated, the overlay, the store;
               \* NoApp while the engine is driven directly

engine == <<grid, score, bestScore, history, gameState, wonBefore, moveId>>

budget == <<played, onScript, nCalls>>

vars == <<grid, score, bestScore, history, gameState, wonBefore, moveId,
          call, run, continued, played, onScript, nCalls, app>>

\* the engine on its own, without an App
NoApp == [none |-> TRUE]

(* ---------------------------------------------------------------------- *)
(* History                                                                 *)
(* ---------------------------------------------------------------------- *)
\* the record pushHistory stores
Snapshot(g, sc, st, wb) ==
  [grid |-> cloneGrid(g), score |-> sc, gameState |-> st, wonBefore |-> wb]

\* mutant of pushHistory: a full history drops the new snapshot, not the oldest
pushHistoryDropNewest(h, snap) ==
  LET pushed == Append(h, snap)
  IN  IF Len(pushed) > maxHistory THEN h ELSE pushed

\* mutant of pushHistory: the history is never shortened
pushHistoryNoShift(h, snap) == Append(h, snap)

\* history.push(snapshot), then history.shift() when over maxHistory
pushHistory(h, snap) ==
  LET pushed == Append(h, snap)
  IN  IF Len(pushed) > maxHistory THEN Tail(pushed) ELSE pushed

\* history.pop(): the array without its last element
popHistory(h) == SubSeq(h, 1, Len(h) - 1)

(* ---------------------------------------------------------------------- *)
(* move                                                                    *)
(* ---------------------------------------------------------------------- *)
\* mutant of moveRejected: the early return for 'won' is missing
moveRejectedLostOnly(st, wb) == st = "lost"

\* the two early returns of move
moveRejected(st, wb) == st = "lost" \/ (st = "won" /\ ~wb)

\* srcPositions: the non-empty cells of a row before the slide, left to right
srcPositions(originalRow) ==
  SelectSeq(Array([c \in 1..Len(originalRow) |-> [col |-> c, value |-> originalRow[c]]]),
            LAMBDA p : p.value # 0)

RECURSIVE trackRow(_, _, _, _, _, _, _)
\* the while loop of move that pairs the source cells of row r with the cells
\* of the slid row; an unmerged movement has no mergedValue
trackRow(r, row, mergePositions, src, srcIdx, destIdx, acc) ==
  IF ~(srcIdx <= Len(src) /\ destIdx <= size)
  THEN acc
  ELSE IF row[destIdx] = 0
       THEN trackRow(r, row, mergePositions, src, srcIdx, destIdx + 1, acc)
       ELSE IF InSeq(destIdx, mergePositions) /\ srcIdx + 1 <= Len(src)
            THEN trackRow(r, row, mergePositions, src, srcIdx + 2, destIdx + 1,
                          acc \o << [fromR |-> r, fromC |-> src[srcIdx].col,
                                     toR |-> r, toC |-> destIdx,
                                     value |-> src[srcIdx].value, merged |-> TRUE,
                                     mergedValue |-> row[destIdx]],
                                    [fromR |-> r, fromC |-> src[srcIdx + 1].col,
                                     toR |-> r, toC |-> destIdx,
                                     value |-> src[srcIdx + 1].value, merged |-> TRUE,
                                     mergedValue |-> row[destIdx]] >>)
            ELSE trackRow(r, row, mergePositions, src, srcIdx + 1, destIdx + 1,
                          Append(acc, [fromR |-> r, fromC |-> src[srcIdx].col,
                                       toR |-> r, toC |-> destIdx,
                                       value |-> src[srcIdx].value, merged |-> FALSE]))

\* mutant of unrotateCoord: the coordinates are left in the rotated frame
unrotateCoordNoTurn(r, c, times) == [r |-> r, c |-> c]

RECURSIVE unrotateCoord(_, _, _)
\* cr = cc, cc = size - 1 - cr, `times` times
unrotateCoord(r, c, times) ==
  IF times = 0 THEN [r |-> r, c |-> c] ELSE unrotateCoord(c, size + 1 - r, times - 1)

\* a tracked movement with its coordinates turned back by `unrot` quarter turns
unrotateMovement(m, unrot) ==
  LET from == unrotateCoord(m.fromR, m.fromC, unrot)
      to   == unrotateCoord(m.toR, m.toC, unrot)
  IN  IF m.merged
      THEN [from |-> from, to |-> to, value |-> m.value, merged |-> TRUE,
            mergedValue |-> m.mergedValue]
      ELSE [from |-> from, to |-> to, value |-> m.value, merged |-> FALSE]

\* the rotate / slide / un-rotate part of move, on grid g
slideGrid(g, direction) ==
  LET rot      == rotations(direction)
      work     == rotateTimes(cloneGrid(g), rot)
      rows     == Array([r \in Idx |-> slideRow(work[r])])
      slid     == Array([r \in Idx |-> rows[r].row])
      unrot    == inverseRotations(rot)
      tracked  == Flatten(Array([r \in Idx |->
                    trackRow(r, rows[r].row, rows[r].mergePositions,
                             srcPositions(work[r]), 1, 1, <<>>)]))
  IN  [moved          |-> \E r \in Idx : \E i \in 1..Len(slid[r]) : slid[r][i] # work[r][i],
       grid           |-> rotateTimes(slid, unrot),
       movements      |-> Array([i \in 1..Len(tracked) |-> unrotateMovement(tracked[i], unrot)]),
       totalScoreGain |-> Sum(Array([r \in Idx |-> rows[r].scoreGain])),
       allMerged      |-> Flatten(Array([r \in Idx |-> rows[r].merged]))]

\* the flag `moved` of move: some cell of some rotated row differs after the
\* row is slid
rowsChange(g, direction) ==
  LET work == rotateTimes(cloneGrid(g), rotations(direction))
  IN  \E r \in Idx : slideRow(work[r]).row # work[r]

\* const hasWon = allMerged.includes(2048) || this.grid.some(row => row.includes(2048))
hasWon(allMerged, g) == InSeq(WinTile, allMerged) \/ HasTile(g, WinTile)

\* mutant of stateAfterMove: the lose check is missing
stateAfterMoveNoLoseCheck(st, wb, allMerged, g) ==
  IF hasWon(allMerged, g) /\ ~wb THEN "won" ELSE st

\* mutant of stateAfterMove: the win check does not look at wonBefore
stateAfterMoveIgnoresWonBefore(st, wb, allMerged, g) ==
  LET afterWin == IF hasWon(allMerged, g) THEN "won" ELSE st
  IN  IF ~canMove(g) THEN "lost" ELSE afterWin

\* the win check followed by the lose check, on the grid after the spawn
stateAfterMove(st, wb, allMerged, g) ==
  LET afterWin == IF hasWon(allMerged, g) /\ ~wb THEN "won" ELSE st
  IN  IF ~canMove(g) THEN "lost" ELSE afterWin

NoResult == [ok |-> FALSE]

(* ---------------------------------------------------------------------- *)
(* The scripted game and the budget of the other calls                     *)
(* ---------------------------------------------------------------------- *)
\* the Math.random() samples of the scripted init: cell and value of the
\* first tile, cell and value of the second
ScriptInit == <<0, 0, 95, 95>>

ScriptCycle == <<"down", "left", "up", "right">>

\* the direction of the k-th scripted move
ScriptDir(k) == ScriptCycle[((k - 1) % Len(ScriptCycle)) + 1]

\* the Math.random() samples of every scripted move: cell, value
ScriptSpawn == <<0, 0>>

ScriptedInit(p) == onScript /\ played = 0 /\ p = ScriptInit

ScriptedMove(direction, pc, pv) ==
  /\ onScript
  /\ played \in 1..ScriptLen
  /\ direction = ScriptDir(played)
  /\ <<pc, pv>> = ScriptSpawn

\* a step of the script costs nothing
OnScriptStep ==
  /\ played' = played + 1
  /\ UNCHANGED <<onScript, nCalls>>

\* the other calls are tried before the scripted game and after it
OffScriptCall ==
  /\ ~onScript \/ played = 0 \/ played > ScriptLen
  /\ nCalls < MaxCalls
  /\ nCalls' = nCalls + 1
  /\ onScript' = FALSE
  /\ UNCHANGED played

\* init or deserialize has run (App._loadGame runs one of them in the App
\* constructor, before any handler is bound)
Loaded == grid # <<>>

NotRun == [clean |-> FALSE, pre |-> <<>>]

\* history variables kept in `call`: the engine's fields a snapshot covers, as
\* they are when a call starts, whether the call before was a move that
\* returned a result, and (slid) the grid of a successful move after the
\* slide and before the new tile
Before == [grid |-> grid, score |-> score, gameState |-> gameState, wonBefore |-> wonBefore]

AfterMove == call.op = "move" /\ call.ret.ok

(* ---------------------------------------------------------------------- *)
(* Actions                                                                 *)
(* ---------------------------------------------------------------------- *)
Init ==
  /\ grid = <<>>
  /\ score = 0
  /\ bestScore = 0
  /\ history = <<>>
  /\ gameState = "playing"
  /\ wonBefore = FALSE
  /\ moveId = 0
  /\ call = [op |-> "new"]
  /\ run = NotRun
  /\ continued = FALSE
  /\ played = 0
  /\ onScript = TRUE
  /\ nCalls = 0
  /\ app = NoApp

\* init(): the four samples are the Math.random() draws of the two tiles
init(pc1, pv1, pc2, pv2) ==
  /\ IF ScriptedInit(<<pc1, pv1, pc2, pv2>>) THEN OnScriptStep ELSE OffScriptCall
  /\ grid' = addRandomTile(addRandomTile(EmptyGrid, pc1, pv1).grid, pc2, pv2).grid
  /\ score' = 0
  /\ history' = <<>>
  /\ gameState' = "playing"
  /\ wonBefore' = FALSE
  /\ moveId' = 0
  /\ UNCHANGED bestScore
  /\ call' = [op |-> "init"]
  /\ run' = [clean |-> TRUE, pre |-> <<>>]
  /\ continued' = FALSE

\* move(direction): pc and pv are the Math.random() draws of the new tile
move(direction, pc, pv) ==
  /\ Loaded
  /\ IF ScriptedMove(direction, pc, pv) THEN OnScriptStep ELSE OffScriptCall
  /\ IF moveRejected(gameState, wonBefore)
     THEN /\ UNCHANGED engine
          /\ call' = [op |-> "move", direction |-> direction, before |-> Before,
                      ret |-> NoResult]
          /\ run' = NotRun
          /\ UNCHANGED continued
     ELSE LET pushed == pushHistory(history, Snapshot(grid, score, gameState, wonBefore))
              slid   == slideGrid(grid, direction)
          IN  IF ~slid.moved
              THEN /\ history' = popHistory(pushed)
                   /\ UNCHANGED <<grid, score, bestScore, gameState, wonBefore, moveId>>
                   /\ call' = [op |-> "move", direction |-> direction, before |-> Before,
                      ret |-> NoResult]
                   /\ run' = NotRun
                   /\ UNCHANGED continued
              ELSE LET newScore == score + slid.totalScoreGain
                       spawned  == addRandomTile(slid.grid, pc, pv)
                       newState == stateAfterMove(gameState, wonBefore,
                                                  slid.allMerged, spawned.grid)
                   IN  /\ history' = pushed
                       /\ grid' = spawned.grid
                       /\ score' = newScore
                       /\ moveId' = moveId + 1
                       /\ bestScore' = IF newScore > bestScore THEN newScore ELSE bestScore
                       /\ gameState' = newState
                       /\ UNCHANGED wonBefore
                       /\ call' = [op |-> "move", direction |-> direction, before |-> Before,
                                   slid |-> slid.grid,
                                   ret |-> [ok          |-> TRUE,
                                            moved       |-> TRUE,
                                            movements   |-> slid.movements,
                                            mergedTiles |-> slid.allMerged,
                                            newTile     |-> spawned.tile,
                                            scoreGain   |-> slid.totalScoreGain,
                                            gameState   |-> newState]]
                       /\ run' = IF run.clean
                                 THEN [run EXCEPT !.pre = Append(@, Before)]
                                 ELSE NotRun
                       /\ UNCHANGED continued

\* mutant of undo: a successful undo also takes the move back from moveId
undoRewindsMoveId ==
  /\ Loaded
  /\ OffScriptCall
  /\ IF Len(history) = 0
     THEN /\ UNCHANGED engine
          /\ call' = [op |-> "undo", afterMove |-> AfterMove, ret |-> FALSE]
     ELSE LET prev == history[Len(history)]
          IN  /\ history' = popHistory(history)
              /\ grid' = prev.grid
              /\ score' = prev.score
              /\ gameState' = prev.gameState
              /\ wonBefore' = prev.wonBefore
              /\ moveId' = moveId - 1
              /\ UNCHANGED bestScore
              /\ call' = [op |-> "undo", afterMove |-> AfterMove, ret |-> TRUE]
  /\ run' = NotRun
  /\ continued' = FALSE

\* undo()
undo ==
  /\ Loaded
  /\ OffScriptCall
  /\ IF Len(history) = 0
     THEN /\ UNCHANGED engine
          /\ call' = [op |-> "undo", afterMove |-> AfterMove, ret |-> FALSE]
     ELSE LET prev == history[Len(history)]
          IN  /\ history' = popHistory(history)
              /\ grid' = prev.grid
              /\ score' = prev.score
              /\ gameState' = prev.gameState
              /\ wonBefore' = prev.wonBefore
              /\ UNCHANGED <<bestScore, moveId>>
              /\ call' = [op |-> "undo", afterMove |-> AfterMove, ret |-> TRUE]
  /\ run' = NotRun
  /\ continued' = FALSE

\* mutant of continueGame: the test of gameState is missing
continueGameFromAnyState ==
  /\ Loaded
  /\ OffScriptCall
  /\ wonBefore' = TRUE
  /\ gameState' = "playing"
  /\ continued' = (gameState = "won")
  /\ UNCHANGED <<grid, score, bestScore, history, moveId>>
  /\ call' = [op |-> "continueGame"]
  /\ run' = NotRun

\* continueGame()
continueGame ==
  /\ Loaded
  /\ OffScriptCall
  /\ IF gameState = "won"
     THEN /\ wonBefore' = TRUE
          /\ gameState' = "playing"
          /\ continued' = TRUE
     ELSE UNCHANGED <<wonBefore, gameState, continued>>
  /\ UNCHANGED <<grid, score, bestScore, history, moveId>>
  /\ call' = [op |-> "continueGame"]
  /\ run' = NotRun

(* ---------------------------------------------------------------------- *)
(* serialize / deserialize                                                 *)
(* ---------------------------------------------------------------------- *)
\* mutant of serialize: moveId is not written
serializeOmitsMoveId ==
  [grid      |-> cloneGrid(grid),
   score     |-> score,
   bestScore |-> bestScore,
   history   |-> Array([i \in 1..Len(history) |->
                    [grid      |-> cloneGrid(history[i].grid),
                     score     |-> history[i].score,
                     gameState |-> history[i].gameState,
                     wonBefore |-> history[i].wonBefore]]),
   gameState |-> gameState,
   wonBefore |-> wonBefore]

\* serialize(): the saved object of the current state
serialize ==
  [grid      |-> cloneGrid(grid),
   score     |-> score,
   bestScore |-> bestScore,
   history   |-> Array([i \in 1..Len(history) |->
                    [grid      |-> cloneGrid(history[i].grid),
                     score     |-> history[i].score,
                     gameState |-> history[i].gameState,
                     wonBefore |-> history[i].wonBefore]]),
   gameState |-> gameState,
   wonBefore |-> wonBefore,
   moveId    |-> moveId]

\* JSON null / no saved object
NoData == [absent |-> TRUE]

Has(data, field) == field \in DOMAIN data

\* if (!data || !data.grid) return false
deserializeFails(data) == Has(data, "absent") \/ ~Has(data, "grid")

\* data.field || dflt, for a number field (0 is falsy and is the default)
NumberOr0(data, field) == IF Has(data, field) /\ data[field] # 0 THEN data[field] ELSE 0

\* mutant of deserialized: wonBefore is not read back
deserializedDropsWonBefore(data) ==
  [grid      |-> data.grid,
   score     |-> NumberOr0(data, "score"),
   bestScore |-> NumberOr0(data, "bestScore"),
   history   |-> IF Has(data, "history") THEN data.history ELSE <<>>,
   gameState |-> IF Has(data, "gameState") THEN data.gameState ELSE "playing",
   wonBefore |-> FALSE,
   moveId    |-> NumberOr0(data, "moveId")]

\* mutant of deserialized: a field absent from data keeps its current value
deserializedKeepsAbsentFields(data) ==
  [grid      |-> data.grid,
   score     |-> IF Has(data, "score") THEN data.score ELSE score,
   bestScore |-> IF Has(data, "bestScore") THEN data.bestScore ELSE bestScore,
   history   |-> IF Has(data, "history") THEN data.history ELSE history,
   gameState |-> IF Has(data, "gameState") THEN data.gameState ELSE gameState,
   wonBefore |-> IF Has(data, "wonBefore") THEN data.wonBefore ELSE wonBefore,
   moveId    |-> IF Has(data, "moveId") THEN data.moveId ELSE moveId]

\* the fields deserialize assigns from data
deserialized(data) ==
  [grid      |-> data.grid,
   score     |-> NumberOr0(data, "score"),
   bestScore |-> NumberOr0(data, "bestScore"),
   history   |-> IF Has(data, "history") THEN data.history ELSE <<>>,
   gameState |-> IF Has(data, "gameState") THEN data.gameState ELSE "playing",
   wonBefore |-> IF Has(data, "wonBefore") /\ data.wonBefore THEN TRUE ELSE FALSE,
   moveId    |-> NumberOr0(data, "moveId")]

\* deserialize(data); roundTrip tells that data is serialize() of this state
load(data, roundTrip) ==
  /\ OffScriptCall
  /\ IF deserializeFails(data)
     THEN /\ UNCHANGED engine
          /\ call' = [op |-> "deserialize", roundTrip |-> roundTrip, data |-> data,
                      ret |-> FALSE]
     ELSE LET d == deserialized(data)
          IN  /\ grid' = d.grid
              /\ score' = d.score
              /\ bestScore' = d.bestScore
              /\ history' = d.history
              /\ gameState' = d.gameState
              /\ wonBefore' = d.wonBefore
              /\ moveId' = d.moveId
              /\ call' = [op |-> "deserialize", roundTrip |-> roundTrip, data |-> data,
                          ret |-> TRUE]
  /\ run' = NotRun
  /\ continued' = FALSE

(* Saved objects a store can hold.  The older shapes have a grid only.     *)
\* one move before the win: left makes 2048
NearWinGrid ==
  << <<1024, 1024, 0, 0>>,
     <<1024,    0, 0, 0>>,
     <<1024,    0, 0, 0>>,
     <<   0,    0, 0, 0>> >>

\* NearWinGrid after move("left") and a new 2 in the last cell; up makes
\* another 2048
WonGrid ==
  << <<2048, 0, 0, 0>>,
     <<1024, 0, 0, 0>>,
     <<1024, 0, 0, 0>>,
     <<   0, 0, 0, 2>> >>

\* left makes 2048 and leaves one empty cell; a new 4 there blocks the board
LastCellGrid ==
  << <<1024, 1024, 4, 2>>,
     <<   2,    8, 4, 8>>,
     <<   4,    2, 8, 2>>,
     <<   2,    4, 2, 4>> >>

\* a board that already holds tiles of the win value
PastWinGrid ==
  << <<2048, 2048, 0, 0>>,
     <<   0,    0, 0, 0>>,
     <<   0,    0, 2, 0>>,
     <<   0,    0, 0, 0>> >>

OldPastWin == [grid |-> PastWinGrid]

SavedLastCell ==
  [grid      |-> LastCellGrid,
   score     |-> 20000,
   bestScore |-> 20000,
   history   |-> <<>>,
   gameState |-> "playing",
   wonBefore |-> FALSE,
   moveId    |-> 900]

\* a saved object whose history is one entry longer than maxHistory
SavedLongHistory ==
  [grid      |-> NearWinGrid,
   score     |-> 16000,
   bestScore |-> 20000,
   history   |-> Array([i \in 1..(maxHistory + 1) |->
                       Snapshot(NearWinGrid, 16000, "playing", FALSE)]),
   gameState |-> "playing",
   wonBefore |-> FALSE,
   moveId    |-> 700]

\* saved right after the winning move, before the player has continued
SavedWon ==
  [grid      |-> WonGrid,
   score     |-> 18048,
   bestScore |-> 20000,
   history   |-> <<Snapshot(NearWinGrid, 16000, "playing", FALSE)>>,
   gameState |-> "won",
   wonBefore |-> FALSE,
   moveId    |-> 701]

\* a saved object that has lost its grid
SavedNoGrid == [score |-> 64, gameState |-> "won", wonBefore |-> TRUE, moveId |-> 9]

\* an older shape: no history, no wonBefore, no moveId
OldLastCell == [grid |-> LastCellGrid, score |-> 20000, gameState |-> "playing"]

StoredData ==
  {NoData, SavedNoGrid, OldPastWin, OldLastCell, SavedLastCell, SavedWon, SavedLongHistory}

\* deserialize(data) of a saved object of the store
deserialize(data) == load(data, FALSE)

\* deserialize(serialize()) on the current state
roundTrip ==
  /\ Loaded
  /\ load(serialize, TRUE)

(* ---------------------------------------------------------------------- *)
(* Specification                                                           *)
(* ---------------------------------------------------------------------- *)
Next ==
  \/ \E d1 \in RandomDraws, d2 \in RandomDraws :
        init(d1[1], d1[2], d2[1], d2[2]) /\ UNCHANGED app
  \/ \E direction \in Directions, d \in RandomDraws :
        move(direction, d[1], d[2]) /\ UNCHANGED app
  \/ undo /\ UNCHANGED app
  \/ continueGame /\ UNCHANGED app
  \/ \E data \in StoredData : deserialize(data) /\ UNCHANGED app
  \/ roundTrip /\ UNCHANGED app

Spec == Init /\ [][Next]_vars

(* ---------------------------------------------------------------------- *)
(* slideRow, rotateGrid and one move on a board taken from a set of boards  *)
(* ---------------------------------------------------------------------- *)
\* the largest exponent of a tile on the boards below
MaxExp == 3

TileValues == {0} \cup {2 ^ e : e \in 1..MaxExp}

\* every row over TileValues
Rows == {Array(w) : w \in [Idx -> TileValues]}

\* the rows that alternate with a row of Rows on a board
FillRows == {<<0, 0, 0, 0>>, <<2, 4, 2, 4>>, <<4, 4, 0, 2>>}

\* an n x n grid whose tiles all differ
SquareGrid(n) ==
  Array([r \in 1..n |-> Array([c \in 1..n |-> 2 ^ ((r - 1) * n + c)])])

\* a board whose sixteen tiles all differ
DistinctGrid == SquareGrid(size)

\* boards turned a quarter, so that their columns range over Rows
TurnedBoards == {rotateGrid(<<w, <<4, 4, 0, 2>>, w, <<4, 4, 0, 2>> >>) : w \in Rows}

\* boards with at least the two tiles init puts down
Boards ==
  {g \in {<<w, x, w, x>> : w \in Rows, x \in FillRows} : TileCount(g) >= 2}
    \cup TurnedBoards
    \cup {DistinctGrid}

\* the engine right after deserialize({grid: g}) on a new Game
SlideInit ==
  /\ grid \in Boards
  /\ score = 0
  /\ bestScore = 0
  /\ history = <<>>
  /\ gameState = "playing"
  /\ wonBefore = FALSE
  /\ moveId = 0
  /\ call = [op |-> "deserialize", roundTrip |-> FALSE, data |-> [grid |-> grid],
             ret |-> TRUE]
  /\ run = NotRun
  /\ continued = FALSE
  /\ played = 0
  /\ onScript = FALSE
  /\ nCalls = 1
  /\ app = NoApp

FirstCall == call.op = "deserialize"

\* this.slideRow(this.grid[r])
slideRowCall(r) ==
  /\ FirstCall
  /\ call' = [op |-> "slideRow", row |-> grid[r], ret |-> slideRow(grid[r])]
  /\ UNCHANGED <<engine, run, continued, budget, app>>

\* the grids rotateGrid is first called on: the board, and next to the board
\* of sixteen different tiles the smaller grids of different tiles
RotateArgs ==
  {grid} \cup (IF grid = DistinctGrid THEN {SquareGrid(n) : n \in 1..(size - 1)} ELSE {})

\* this.rotateGrid(g): on a grid of RotateArgs, then on what the call before
\* returned, four times in all
rotateGridCall(g) ==
  /\ \/ FirstCall /\ g \in RotateArgs
     \/ call.op = "rotateGrid" /\ call.times < 4 /\ g = call.ret
  /\ call' = [op    |-> "rotateGrid",
              arg   |-> IF FirstCall THEN g ELSE call.arg,
              times |-> IF FirstCall THEN 1 ELSE call.times + 1,
              ret   |-> rotateGrid(g)]
  /\ UNCHANGED <<engine, run, continued, budget, app>>

\* the rotations of move(direction) alone: the forward count on a copy of
\* the grid, then the inverse count
rotateForMove(direction) ==
  /\ FirstCall
  /\ LET rot  == rotations(direction)
         work == rotateTimes(cloneGrid(grid), rot)
     IN  call' = [op |-> "rotateForMove", direction |-> direction, work |-> work,
                  ret |-> rotateTimes(work, inverseRotations(rot))]
  /\ UNCHANGED <<engine, run, continued, budget, app>>

\* one move on the board
moveOnce(direction, pc, pv) == FirstCall /\ move(direction, pc, pv) /\ UNCHANGED app

SlideNext ==
  \/ \E r \in Idx : slideRowCall(r)
  \/ \E g \in RotateArgs \cup (IF call.op = "rotateGrid" THEN {call.ret} ELSE {}) :
        rotateGridCall(g)
  \/ \E direction \in Directions : rotateForMove(direction)
  \/ \E direction \in Directions, d \in RandomDraws : moveOnce(direction, d[1], d[2])

SlideSpec == SlideInit /\ [][SlideNext]_vars

(* ---------------------------------------------------------------------- *)
(* The App: the engine behind the input handlers, the renderer's           *)
(* animation and the store                                                  *)
(* ---------------------------------------------------------------------- *)
\* getMaxTile(): the largest cell of the grid
getMaxTile(g) ==
  LET cells == {g[r][c] : r \in Idx, c \in Idx}
  IN  CHOOSE v \in cells : \A w \in cells : v >= w

\* Storage.getStats() on an empty store (totalPlayTime is left out: only the
\* play timer writes it)
NoStats == [gamesPlayed |-> 0, gamesWon |-> 0, bestTile |-> 0]

\* Storage._set: the write is stored, or fails and is swallowed
Written(ok, old, new) == IF ok THEN new ELSE old

\* the outcomes of the writes of one handler, in the order it makes them:
\* stats, game state, best score
WriteOutcomes == BOOLEAN \X BOOLEAN \X BOOLEAN

\* the overlay _loadGame and the end of a move show for a game state
OverlayFor(st) == IF st \in {"won", "lost"} THEN st ELSE "none"

\* the store after _saveGame() at the end of a step, on top of store st
SavedGame(st, w) ==
  [st EXCEPT !.state     = Written(w[2], @, serialize'),
             !.bestScore = Written(w[3], @, bestScore')]

\* stats after gamesPlayed++ and the bestTile update, for grid g
GameCounted(stats, g) ==
  [stats EXCEPT !.gamesPlayed = @ + 1,
                !.bestTile    = IF getMaxTile(g) > @ THEN getMaxTile(g) ELSE @]

\* stats after gamesWon++ and the bestTile update, for grid g
WinCounted(stats, g) ==
  [stats EXCEPT !.gamesWon = @ + 1,
                !.bestTile = IF getMaxTile(g) > @ THEN getMaxTile(g) ELSE @]

\* new App(): _loadGame() on a store that holds `saved` and its best score;
\* the four samples are the Math.random() draws of init() when there is
\* nothing to restore
AppLoad(saved, pc1, pv1, pc2, pv2) ==
  LET storedBest == NumberOr0(saved, "bestScore")
      restored   == ~deserializeFails(saved)
      d          == deserialized(saved)
  IN  /\ IF restored
         THEN /\ grid = d.grid
              /\ score = d.score
              /\ bestScore = (IF storedBest > d.bestScore THEN storedBest ELSE d.bestScore)
              /\ history = d.history
              /\ gameState = d.gameState
              /\ wonBefore = d.wonBefore
              /\ moveId = d.moveId
              /\ call = [op |-> "deserialize", roundTrip |-> FALSE, data |-> saved,
                         ret |-> TRUE]
              /\ run = NotRun
         ELSE /\ grid = addRandomTile(addRandomTile(EmptyGrid, pc1, pv1).grid, pc2, pv2).grid
              /\ score = 0
              /\ bestScore = storedBest
              /\ history = <<>>
              /\ gameState = "playing"
              /\ wonBefore = FALSE
              /\ moveId = 0
              /\ call = [op |-> "init"]
              /\ run = [clean |-> TRUE, pre |-> <<>>]
      /\ continued = FALSE
      /\ played = 0
      /\ onScript = FALSE
      /\ nCalls = 0
      /\ app = [animating |-> FALSE,
                locked    |-> FALSE,
                result    |-> NoResult,
                overlay   |-> OverlayFor(gameState),
                store     |-> [state |-> saved, bestScore |-> storedBest, stats |-> NoStats],
                idealBest |-> storedBest,
                counted   |-> 0,
                last      |-> [op |-> "new"]]

AppInit ==
  \E saved \in StoredData :
    IF deserializeFails(saved)
    THEN \E d1 \in RandomDraws, d2 \in RandomDraws : AppLoad(saved, d1[1], d1[2], d2[1], d2[2])
    ELSE AppLoad(saved, 0, 0, 0, 0)

\* the larger of two scores
MaxOf(a, b) == IF a > b THEN a ELSE b

\* handleMove(direction): ignored while the renderer animates (and while the
\* input is locked) and in the states move rejects; a move that returns a
\* result locks the input and starts the animation, whose end is a step of
\* its own; a move that returns null ends the handler
handleMove(direction, pc, pv) ==
  /\ ~app.animating /\ ~app.locked
  /\ gameState # "lost"
  /\ ~(gameState = "won" /\ ~wonBefore)
  /\ move(direction, pc, pv)
  /\ app' = IF call'.ret.ok
            THEN [app EXCEPT !.animating = TRUE,
                             !.locked    = TRUE,
                             !.result    = call'.ret,
                             !.last      = [op |-> "handleMove", moved |-> TRUE]]
            ELSE [app EXCEPT !.last = [op |-> "handleMove", moved |-> FALSE]]

\* the rest of handleMove, run when the promise of animateMove resolves:
\* the overlay and the statistics for the result of the move, _saveGame(),
\* input.unlock()
animationEnd(w) ==
  /\ app.animating
  /\ UNCHANGED <<engine, call, run, continued, budget>>
  /\ LET st    == app.result.gameState
         stats == app.store.stats
         newStats ==
           IF st = "won" THEN Written(w[1], stats, WinCounted(stats, grid))
           ELSE IF st = "lost" THEN Written(w[1], stats, GameCounted(stats, grid))
           ELSE stats
     IN  app' = [app EXCEPT
                   !.animating = FALSE,
                   !.locked    = FALSE,
                   !.result    = NoResult,
                   !.overlay   = IF st \in {"won", "lost"} THEN st ELSE @,
                   !.store     = SavedGame([@ EXCEPT !.stats = newStats], w),
                   !.idealBest = MaxOf(@, bestScore),
                   !.counted   = @ + (newStats.gamesPlayed - stats.gamesPlayed),
                   !.last      = [op |-> "animationEnd", result |-> st]]

\* newGame(): the New Game button and the button of the overlay
newGame(pc1, pv1, pc2, pv2, w) ==
  /\ OffScriptCall
  /\ grid' = addRandomTile(addRandomTile(EmptyGrid, pc1, pv1).grid, pc2, pv2).grid
  /\ score' = 0
  /\ history' = <<>>
  /\ gameState' = "playing"
  /\ wonBefore' = FALSE
  /\ moveId' = 0
  /\ bestScore' = app.store.bestScore
  /\ call' = [op |-> "init"]
  /\ run' = [clean |-> TRUE, pre |-> <<>>]
  /\ continued' = FALSE
  /\ LET stats    == app.store.stats
         newStats == IF moveId > 0
                     THEN Written(w[1], stats, GameCounted(stats, grid))
                     ELSE stats
         counted  == app.counted + (newStats.gamesPlayed - stats.gamesPlayed)
     IN  app' = [app EXCEPT
                   !.overlay   = "none",
                   !.store     = SavedGame([@ EXCEPT !.stats = newStats], w),
                   !.counted   = 0,
                   !.last      = [op |-> "newGame", animating |-> app.animating,
                                  counted |-> counted]]

\* undo(): the Undo button and Ctrl+Z
appUndo(w) ==
  /\ ~app.animating
  /\ undo
  /\ app' = IF call'.ret
            THEN [app EXCEPT !.overlay   = "none",
                             !.store     = SavedGame(@, w),
                             !.idealBest = MaxOf(@, bestScore'),
                             !.last      = [op |-> "undo", undone |-> TRUE]]
            ELSE [app EXCEPT !.last = [op |-> "undo", undone |-> FALSE]]

\* the Continue button of the overlay, there to click while the overlay
\* shows a win
continueClick(w) ==
  /\ app.overlay = "won"
  /\ continueGame
  /\ app' = [app EXCEPT !.overlay   = "none",
                        !.store     = SavedGame(@, w),
                        !.idealBest = MaxOf(@, bestScore'),
                        !.last      = [op |-> "continue", animating |-> app.animating]]

AppNext ==
  \/ \E direction \in Directions, d \in RandomDraws : handleMove(direction, d[1], d[2])
  \/ \E w \in WriteOutcomes : animationEnd(w)
  \/ \E d1 \in RandomDraws, d2 \in RandomDraws, w \in WriteOutcomes :
        newGame(d1[1], d1[2], d2[1], d2[2], w)
  \/ \E w \in WriteOutcomes : appUndo(w)
  \/ \E w \in WriteOutcomes : continueClick(w)

AppSpec == AppInit /\ [][AppNext]_vars

(* ---------------------------------------------------------------------- *)
(* Properties                                                              *)
(* ---------------------------------------------------------------------- *)
MoveDone == call.op = "move" /\ call.ret.ok

\* no empty cell and no two equal neighbours, stated on the grid itself
Blocked(g) ==
  /\ \A r \in Idx, c \in Idx : g[r][c] # 0
  /\ \A r \in Idx, c \in 1..(size - 1) : g[r][c] # g[r][c + 1]
  /\ \A r \in 1..(size - 1), c \in Idx : g[r][c] # g[r + 1][c]

\* the last n elements of s
LastN(s, n) == SubSeq(s, Len(s) - n + 1, Len(s))

\* C1 as claimed: a move in which no row changes returns null and leaves
\* grid, score, bestScore, gameState, wonBefore, moveId and the whole history
\* as they were, also when the history already holds 20 snapshots.
C1_NoOpMoveChangesNothing ==
  [][(call'.op = "move" /\ ~moveRejected(gameState, wonBefore) /\ ~call'.ret.ok)
       => UNCHANGED engine]_vars

\* C2: undo() right after a successful move returns true, restores the grid,
\* score, gameState and wonBefore of before the move and leaves history one
\* entry shorter than it was right after the move.
C2_UndoRestoresPreMove ==
  [][(MoveDone /\ call'.op = "undo")
       => /\ call'.ret = TRUE
          /\ grid' = call.before.grid
          /\ score' = call.before.score
          /\ gameState' = call.before.gameState
          /\ wonBefore' = call.before.wonBefore
          /\ Len(history') = Len(history) - 1]_vars

\* an undo made right after a successful move that found the history full
C2_Witness ==
  /\ call.op = "undo" /\ call.afterMove /\ call.ret = TRUE
  /\ Len(history) = maxHistory - 1

KeepsGame(c) ==
  \/ c.op \in {"move", "undo", "continueGame"}
  \/ c.op = "deserialize" /\ c.roundTrip

\* C3 as claimed: once wonBefore is true it stays true under move, undo,
\* continueGame and serialize/deserialize, until the next init.
C3_WonBeforeMonotone ==
  [][(wonBefore /\ KeepsGame(call')) => wonBefore']_vars

\* C3 as amended: move, continueGame and a serialize/deserialize round trip
\* never reset wonBefore; undo sets it to the value in the popped snapshot.
C3_WonBeforeKeptExceptUndo ==
  [][/\ (wonBefore /\ KeepsGame(call') /\ call'.op # "undo") => wonBefore'
     /\ (call'.op = "undo" /\ call'.ret = TRUE)
          => wonBefore' = history[Len(history)].wonBefore]_vars

\* wonBefore has survived a serialize/deserialize round trip
C3_Witness ==
  /\ wonBefore
  /\ call.op = "deserialize" /\ call.roundTrip /\ call.ret = TRUE

\* C4: after a successful move gameState is 'lost' exactly when the grid has
\* no empty cell and no two equal neighbours, also when the move made 2048.
C4_LostIffBlocked ==
  MoveDone => ((gameState = "lost") <=> Blocked(grid))

\* a move that made a 2048 tile and ended 'lost'
C4_Witness ==
  /\ MoveDone /\ gameState = "lost"
  /\ InSeq(2048, call.ret.mergedTiles)

\* C5 as claimed: a successful move made while wonBefore is false that merges
\* into a value >= 2048, or leaves a cell >= 2048 on the grid, ends 'won' (or
\* 'lost' when the lose condition holds).
C5_WinAtOrAbove2048 ==
  (/\ MoveDone
   /\ ~call.before.wonBefore
   /\ \/ \E i \in 1..Len(call.ret.mergedTiles) : call.ret.mergedTiles[i] >= 2048
      \/ \E r \in Idx, c \in Idx : grid[r][c] >= 2048)
    => gameState = (IF Blocked(grid) THEN "lost" ELSE "won")

\* C6: the move that first makes a 2048 tile, with wonBefore false and the
\* lose condition not met, ends 'won'; once continueGame has been called, no
\* move of any later sequence of moves ends 'won'.
C6_WinFiresOnce ==
  [][/\ (/\ call'.op = "move" /\ call'.ret.ok
         /\ ~wonBefore
         /\ ~HasTile(grid, 2048)
         /\ InSeq(2048, call'.ret.mergedTiles)
         /\ ~Blocked(grid')) => gameState' = "won"
     /\ (continued /\ call'.op = "move") => gameState' # "won"]_vars

\* after continueGame, a move has made another 2048 tile
C6_Witness ==
  /\ continued /\ MoveDone
  /\ InSeq(2048, call.ret.mergedTiles)
  /\ gameState = "playing"

\* C7: move called in 'lost', or in 'won' with wonBefore false, returns null
\* and changes no field of the engine.
C7_RejectedMoveChangesNothing ==
  [][(/\ call'.op = "move"
      /\ gameState = "lost" \/ (gameState = "won" /\ ~wonBefore))
       => (~call'.ret.ok /\ UNCHANGED engine)]_vars

\* a move has been rejected in 'won', with an undo step still in the history
C7_Witness ==
  /\ call.op = "move" /\ ~call.ret.ok
  /\ gameState = "won" /\ ~wonBefore
  /\ Len(history) > 0

\* C8 as claimed: history.length is at most 20 in every state reachable
\* through init, move, undo, continueGame and deserialize.
C8_HistoryAtMost20 == Len(history) <= 20

\* C9: after k successful moves in a row since init, history is the last
\* min(k, 20) pre-move snapshots, oldest first.
C9_HistoryIsLastSnapshots ==
  run.clean =>
    LET k == Len(run.pre)
    IN  history = LastN(run.pre, IF k < 20 THEN k ELSE 20)

\* 25 moves in a row since init: the 5 oldest snapshots are gone
C9_Witness ==
  /\ run.clean /\ Len(run.pre) = 25
  /\ Len(history) = 20
  /\ history[1] = run.pre[6]

\* C10 as claimed: move, undo and continueGame never decrease the score.
C10_ScoreNeverDecreases ==
  [][call'.op \in {"move", "undo", "continueGame"} => score' >= score]_vars

\* C10 as amended: move and continueGame never decrease the score; undo sets
\* it to the score of the popped snapshot.
C10_ScoreKeptExceptUndo ==
  [][/\ call'.op \in {"move", "continueGame"} => score' >= score
     /\ (call'.op = "undo" /\ call'.ret = TRUE)
          => score' = history[Len(history)].score]_vars

\* a move has merged tiles and raised the score
C10_Witness ==
  /\ MoveDone /\ call.ret.scoreGain > 0
  /\ score = call.before.score + call.ret.scoreGain

\* C12: for every successful move the returned scoreGain is the sum of the
\* returned mergedTiles, and the score after the move is the score before
\* it plus scoreGain.
C12_ScoreGainIsSumOfMerged ==
  MoveDone =>
    /\ call.ret.scoreGain = Sum(call.ret.mergedTiles)
    /\ score - call.before.score = call.ret.scoreGain

\* a move of a game under way has merged two pairs at once
C12_Witness ==
  /\ MoveDone
  /\ Len(call.ret.mergedTiles) >= 2
  /\ call.before.score > 0
  /\ score > call.before.score

\* C14: deserialize(serialize(x)) returns true and gives back the grid,
\* score, bestScore, gameState, wonBefore, moveId and history of x.
C14_SerializeRoundTrip ==
  [][(call'.op = "deserialize" /\ call'.roundTrip)
       => /\ call'.ret = TRUE
          /\ grid' = grid
          /\ score' = score
          /\ bestScore' = bestScore
          /\ gameState' = gameState
          /\ wonBefore' = wonBefore
          /\ moveId' = moveId
          /\ history' = history]_vars

\* the round trip of a game played from init, with a full history
C14_Witness ==
  /\ call.op = "deserialize" /\ call.roundTrip /\ call.ret = TRUE
  /\ onScript = FALSE /\ nCalls = 1 /\ played > ScriptLen
  /\ Len(history) = maxHistory
  /\ moveId = ScriptLen /\ score > 0

\* C15: deserialize(data) with no data or with data that has no grid returns
\* false and leaves every field of the engine unchanged; with a grid it
\* returns true, takes the grid and the fields data has, and gives every
\* absent field its default: score 0, gameState 'playing', wonBefore false,
\* moveId 0, empty history.
C15_DeserializeDefaults ==
  [][call'.op = "deserialize" =>
       LET data == call'.data
       IN  IF Has(data, "absent") \/ ~Has(data, "grid")
           THEN call'.ret = FALSE /\ UNCHANGED engine
           ELSE /\ call'.ret = TRUE
                /\ grid' = data.grid
                /\ score' = IF Has(data, "score") THEN data.score ELSE 0
                /\ gameState' = IF Has(data, "gameState") THEN data.gameState ELSE "playing"
                /\ wonBefore' = IF Has(data, "wonBefore") THEN data.wonBefore ELSE FALSE
                /\ moveId' = IF Has(data, "moveId") THEN data.moveId ELSE 0
                /\ history' = IF Has(data, "history") THEN data.history ELSE <<>>]_vars

\* a saved object with a grid only has replaced a game played to its end
C15_Witness ==
  /\ call.op = "deserialize" /\ call.data = OldPastWin /\ call.ret = TRUE
  /\ played > ScriptLen
  /\ grid = PastWinGrid
  /\ score = 0 /\ moveId = 0 /\ history = <<>>
  /\ gameState = "playing" /\ ~wonBefore

\* a saved object without a grid has been refused and the game is as it was
C15_RefusedWitness ==
  /\ call.op = "deserialize" /\ call.data = SavedNoGrid /\ call.ret = FALSE
  /\ played > ScriptLen
  /\ moveId = ScriptLen /\ gameState = "playing" /\ ~wonBefore

RECURSIVE IsPowerOfTwo(_)
\* v is 2, 4, 8, ...
IsPowerOfTwo(v) == v = 2 \/ (v > 2 /\ v % 2 = 0 /\ IsPowerOfTwo(v \div 2))

\* every non-zero cell of g is a power of two that is at least 2
TilesArePowersOfTwo(g) ==
  \A r \in 1..Len(g) : \A c \in 1..Len(g[r]) : g[r][c] = 0 \/ IsPowerOfTwo(g[r][c])

\* C16: in every state reached from init through move, undo, continueGame
\* and serialize/deserialize round trips, every non-zero cell of the grid and
\* of every history snapshot's grid is a power of two that is at least 2.
C16_TilesArePowersOfTwo ==
  /\ TilesArePowersOfTwo(grid)
  /\ \A i \in 1..Len(history) : TilesArePowersOfTwo(history[i].grid)

\* a game played from init has merged its way up to a 16, with both kinds of
\* new tile on the board's past
C16_Witness ==
  /\ MoveDone /\ run.clean
  /\ Len(history) = maxHistory
  /\ \E r \in Idx, c \in Idx : grid[r][c] >= 16
  /\ \E r \in Idx, c \in Idx : run.pre[1].grid[r][c] = 4

\* C17: undo() never changes moveId or bestScore and spawns no tile; with a
\* non-empty history it returns true and sets grid, score, gameState and
\* wonBefore to those of the popped snapshot, the last of the history; with
\* an empty history it returns false and changes no field of the engine.
C17_UndoFrame ==
  [][call'.op = "undo" =>
       /\ moveId' = moveId
       /\ bestScore' = bestScore
       /\ IF Len(history) > 0
          THEN LET popped == history[Len(history)]
               IN  /\ call'.ret = TRUE
                   /\ grid' = popped.grid
                   /\ score' = popped.score
                   /\ gameState' = popped.gameState
                   /\ wonBefore' = popped.wonBefore
                   /\ history' = SubSeq(history, 1, Len(history) - 1)
          ELSE call'.ret = FALSE /\ UNCHANGED engine]_vars

\* an undo at the end of a game played from init: the score is back under
\* bestScore and moveId still counts every move
C17_Witness ==
  /\ call.op = "undo" /\ call.ret = TRUE
  /\ played > ScriptLen
  /\ moveId = ScriptLen
  /\ score < bestScore

\* an undo with nothing to undo
C17_EmptyWitness ==
  /\ call.op = "undo" /\ call.ret = FALSE
  /\ history = <<>> /\ Loaded

\* C18: continueGame() called in 'won' sets wonBefore to true and gameState
\* to 'playing' and changes nothing else; called in any other gameState it
\* changes nothing at all.
C18_ContinueGameFrame ==
  [][call'.op = "continueGame" =>
       IF gameState = "won"
       THEN /\ wonBefore' = TRUE
            /\ gameState' = "playing"
            /\ UNCHANGED <<grid, score, bestScore, history, moveId>>
       ELSE UNCHANGED engine]_vars

\* continueGame has just left 'won', with the winning tile on the board and
\* the winning move still in the history
C18_Witness ==
  /\ call.op = "continueGame" /\ continued
  /\ gameState = "playing" /\ wonBefore
  /\ HasTile(grid, WinTile)
  /\ Len(history) > 0

\* continueGame has been called on a lost game, which stays lost
C18_LostWitness ==
  /\ call.op = "continueGame"
  /\ gameState = "lost" /\ ~wonBefore

\* move(direction) called now would return a result
MoveWouldSucceed(direction) ==
  ~moveRejected(gameState, wonBefore) /\ rowsChange(grid, direction)

\* C26: in every state reached from init through move, undo and
\* continueGame, if gameState is 'playing' then move returns a result for at
\* least one of the four directions; equivalently, a grid with no possible
\* move is only ever held with gameState 'lost'.
C26_NeverStuckInPlaying ==
  Loaded =>
    /\ gameState = "playing" => \E direction \in Directions : MoveWouldSucceed(direction)
    /\ Blocked(grid) => gameState = "lost"
    /\ (\A direction \in Directions : ~rowsChange(grid, direction)) => gameState = "lost"

\* a game that has been continued on a full board: only a merge can move
C26_Witness ==
  /\ call.op = "continueGame" /\ continued
  /\ gameState = "playing"
  /\ TileCount(grid) = size * size
  /\ \E direction \in Directions : MoveWouldSucceed(direction)

(* Claims on slideRow, rotateGrid and single moves, under SlideSpec        *)

\* the ways to cut a row of at most `size` tiles into blocks of 1 or 2 tiles
BlockSeqs == UNION {[1..k -> {1, 2}] : k \in 0..size}

\* the index in f of the first tile of block j
BlockStart(bs, j) == 1 + Sum(SubSeq(bs, 1, j - 1))

\* bs cuts f from left to right into pairs of equal neighbours and single
\* tiles, a pair being taken wherever the scan meets one
LeftToRightPairs(f, bs) ==
  /\ Sum(bs) = Len(f)
  /\ \A j \in 1..Len(bs) :
        LET s == BlockStart(bs, j)
        IN  IF bs[j] = 2 THEN f[s] = f[s + 1] ELSE (s = Len(f) \/ f[s] # f[s + 1])

\* C11: slideRow merges only pairs of equal values that are adjacent after
\* compaction, scanning left to right, and every cell of the result comes
\* from one tile or from one merged pair, never from a merged cell merged
\* again: [2,2,2,2] gives [4,4,0,0] and [2,2,4,0] gives [4,4,0,0].
C11_NoDoubleMerge ==
  call.op = "slideRow" =>
    LET f   == SelectSeq(call.row, LAMBDA v : v # 0)
        out == call.ret
    IN  /\ \E bs \in BlockSeqs :
              /\ LeftToRightPairs(f, bs)
              /\ out.row = Array([c \in 1..Len(call.row) |->
                               IF c > Len(bs) THEN 0
                               ELSE IF bs[c] = 2 THEN 2 * f[BlockStart(bs, c)]
                                    ELSE f[BlockStart(bs, c)]])
              /\ out.mergePositions = SelectSeq(Array([c \in 1..Len(bs) |-> c]),
                                                LAMBDA c : bs[c] = 2)
              /\ out.merged = Array([i \in 1..Len(out.mergePositions) |->
                                      out.row[out.mergePositions[i]]])
        /\ call.row = <<2, 2, 2, 2>> => out.row = <<4, 4, 0, 0>>
        /\ call.row = <<2, 2, 4, 0>> => out.row = <<4, 4, 0, 0>>

\* slideRow has made a 4 next to a 4 and left the two apart
C11_Witness ==
  /\ call.op = "slideRow"
  /\ call.row = <<2, 2, 4, 0>>
  /\ call.ret.row = <<4, 4, 0, 0>>

\* the sum of the tile values of a grid
GridSum(g) == Sum(Flatten(g))

\* C13 as claimed: the sum of the tile values after the slide/merge step of a
\* successful move, before the new tile, is the pre-move sum plus the score
\* gained by the move.
C13_SumGrowsByScoreGain ==
  MoveDone => GridSum(call.slid) = GridSum(call.before.grid) + call.ret.scoreGain

\* C13 as amended: the slide/merge step of a successful move leaves the sum
\* of the tile values as it was before the move, whatever the score gained;
\* the new tile then adds its own value.
C13_SlideKeepsSum ==
  MoveDone =>
    /\ GridSum(call.slid) = GridSum(call.before.grid)
    /\ GridSum(grid) = GridSum(call.slid)
                         + (IF call.ret.newTile.none THEN 0 ELSE call.ret.newTile.value)

\* a move has merged two pairs or more and the tiles still add up to the
\* same sum
C13_Witness ==
  /\ MoveDone
  /\ Len(call.ret.mergedTiles) >= 2
  /\ call.ret.scoreGain > 0
  /\ GridSum(call.slid) = GridSum(call.before.grid)

\* the rotation counts as the claim lists them
ForwardCount(direction) ==
  CASE direction = "left"  -> 0
    [] direction = "up"    -> 3
    [] direction = "right" -> 2
    [] direction = "down"  -> 1

\* C19: rotateGrid is a clockwise quarter turn of an N x N grid (the top
\* row becomes the right column); applied 4 times it returns the original
\* grid; and for each direction the forward count of rotations (left 0, up 3,
\* right 2, down 1) followed by the inverse count (4 - forward) mod 4 returns
\* the original grid.
C19_RotationRoundTrip ==
  /\ (call.op = "rotateGrid" /\ call.times = 1)
       => LET n == Len(call.arg)
          IN  \A i \in 1..n : call.ret[i][n] = call.arg[1][i]
  /\ (call.op = "rotateGrid" /\ call.times = 4) => call.ret = call.arg
  /\ call.op = "rotateForMove"
       => /\ call.work = rotateTimes(grid, ForwardCount(call.direction))
          /\ call.ret = grid

\* the board of sixteen different tiles is back after four quarter turns
C19_Witness ==
  /\ call.op = "rotateGrid" /\ call.times = 4
  /\ call.arg = DistinctGrid
  /\ call.ret = DistinctGrid

\* a 3 x 3 grid of different tiles is back after four quarter turns
C19_SmallWitness ==
  /\ call.op = "rotateGrid" /\ call.times = 4
  /\ call.arg = SquareGrid(3)
  /\ call.ret = call.arg

\* the three quarter turns of 'up' and the one that undoes them
C19_UpWitness ==
  /\ call.op = "rotateForMove" /\ call.direction = "up"
  /\ grid = DistinctGrid
  /\ call.work # grid /\ call.ret = grid

\* no zero to the left of a non-zero value
LeftCompacted(row) ==
  \A i \in 1..Len(row), j \in 1..Len(row) : (i < j /\ row[i] = 0) => row[j] = 0

\* no two adjacent equal non-zero values
NoEqualNeighbours(row) ==
  \A i \in 1..(Len(row) - 1) : row[i] # 0 => row[i] # row[i + 1]

Settled(row) == LeftCompacted(row) /\ NoEqualNeighbours(row)

\* C20: for every row that is left-compacted and has no two adjacent equal
\* non-zero values, slideRow returns the same row with scoreGain 0 and no
\* merges; on a grid made only of such rows move('left') returns null and
\* leaves grid, score, bestScore, gameState, wonBefore and moveId as they
\* were.
C20_SlideIdempotent ==
  /\ (call.op = "slideRow" /\ Settled(call.row))
       => /\ call.ret.row = call.row
          /\ call.ret.scoreGain = 0
          /\ call.ret.merged = <<>>
          /\ call.ret.mergePositions = <<>>
  /\ (/\ call.op = "move" /\ call.direction = "left"
      /\ \A r \in Idx : Settled(call.before.grid[r]))
       => /\ ~call.ret.ok
          /\ grid = call.before.grid
          /\ score = call.before.score
          /\ gameState = call.before.gameState
          /\ wonBefore = call.before.wonBefore
          /\ bestScore = 0 /\ moveId = 0

\* move('left') has returned null on a board of settled rows
C20_Witness ==
  /\ call.op = "move" /\ call.direction = "left" /\ ~call.ret.ok
  /\ grid[1] = <<8, 4, 2, 0>>
  /\ grid[2] = <<2, 4, 2, 4>>

\* slideRow has been called on a full settled row
C20_RowWitness ==
  /\ call.op = "slideRow"
  /\ call.row = <<2, 4, 2, 4>>
  /\ call.ret.row = call.row /\ call.ret.scoreGain = 0

\* line k of g toward `direction`, read from the edge the tiles slide to:
\* a row from its left end for left and from its right end for right, a
\* column from its top for up and from its bottom for down
Line(g, direction, k) ==
  CASE direction = "left"  -> Array([i \in Idx |-> g[k][i]])
    [] direction = "right" -> Array([i \in Idx |-> g[k][size + 1 - i]])
    [] direction = "up"    -> Array([i \in Idx |-> g[i][k]])
    [] direction = "down"  -> Array([i \in Idx |-> g[size + 1 - i][k]])

\* the slide-and-merge rule applied to every line of g toward `direction`
DirectSlide(g, direction) ==
  LET slidLine == Array([k \in Idx |-> slideRow(Line(g, direction, k)).row])
  IN  Array([r \in Idx |-> Array([c \in Idx |->
        CASE direction = "left"  -> slidLine[r][c]
          [] direction = "right" -> slidLine[r][size + 1 - c]
          [] direction = "up"    -> slidLine[c][r]
          [] direction = "down"  -> slidLine[c][size + 1 - r]])])

\* C23: for every grid and direction, the grid move(direction) commits
\* before the new tile is the grid with the slide-and-merge rule applied to
\* each line toward that direction; move returns null exactly when that
\* changes no line.
C23_RotationNormalization ==
  call.op = "move" =>
    LET direct == DirectSlide(call.before.grid, call.direction)
    IN  IF call.ret.ok
        THEN call.slid = direct /\ direct # call.before.grid
        ELSE direct = call.before.grid /\ grid = call.before.grid

\* a move down has merged tiles in two columns
C23_Witness ==
  /\ call.op = "move" /\ call.direction = "down" /\ call.ret.ok
  /\ call.before.grid[1] = <<2, 2, 4, 0>>
  /\ call.before.grid[2] = <<4, 4, 0, 2>>
  /\ call.slid[4] = <<4, 4, 8, 4>>

\* `to` is on the line of `from`, at `from` or further toward `direction`
Toward(direction, from, to) ==
  CASE direction = "left"  -> to.r = from.r /\ to.c <= from.c
    [] direction = "right" -> to.r = from.r /\ to.c >= from.c
    [] direction = "up"    -> to.c = from.c /\ to.r <= from.r
    [] direction = "down"  -> to.c = from.c /\ to.r >= from.r

\* C24: in the movement trace of a successful move, in the original
\* orientation, each non-empty cell of the pre-move grid is the `from` of
\* exactly one movement, with its value, and nothing else is; every `to` is
\* on the line of its `from`, displaced only toward the move direction; two
\* movements share a `to` exactly when both are flagged merged (a merged
\* movement has exactly one partner), and then the grid after the slide
\* holds their mergedValue, twice the value, at `to`; the `to` cell of an
\* unmerged movement holds its value.
C24_MovementTraceExact ==
  (call.op = "move" /\ call.ret.ok) =>
    LET M  == call.ret.movements
        g0 == call.before.grid
        sl == call.slid
        I  == 1..Len(M)
    IN  /\ Len(M) = TileCount(g0)
        /\ \A r \in Idx, c \in Idx :
              g0[r][c] # 0 =>
                \E i \in I : /\ M[i].from = [r |-> r, c |-> c]
                              /\ M[i].value = g0[r][c]
                              /\ \A j \in I : M[j].from = M[i].from => j = i
        /\ \A i \in I :
              /\ M[i].from.r \in Idx /\ M[i].from.c \in Idx
              /\ M[i].to.r \in Idx /\ M[i].to.c \in Idx
              /\ Toward(call.direction, M[i].from, M[i].to)
              /\ \A j \in I : (j # i /\ M[j].to = M[i].to) => (M[i].merged /\ M[j].merged)
              /\ IF M[i].merged
                 THEN /\ Cardinality({j \in I : j # i /\ M[j].to = M[i].to}) = 1
                      /\ M[i].mergedValue = 2 * M[i].value
                      /\ sl[M[i].to.r][M[i].to.c] = M[i].mergedValue
                 ELSE sl[M[i].to.r][M[i].to.c] = M[i].value

\* a move up whose trace has a merged pair and a tile that slid without
\* merging
C24_Witness ==
  /\ call.op = "move" /\ call.direction = "up" /\ call.ret.ok
  /\ \E i \in 1..Len(call.ret.movements) :
        /\ call.ret.movements[i].merged
        /\ call.ret.movements[i].from.r > call.ret.movements[i].to.r
  /\ \E i \in 1..Len(call.ret.movements) :
        /\ ~call.ret.movements[i].merged
        /\ call.ret.movements[i].from.r > call.ret.movements[i].to.r

\* C25: a move that returns a result returns a newTile: the grid after the
\* slide of a move that changed something has an empty cell, and the
\* committed grid differs from it in exactly the newTile cell, which was
\* empty and now holds 2 or 4.
C25_ExactlyOneSpawn ==
  (call.op = "move" /\ call.ret.ok) =>
    LET t == call.ret.newTile
    IN  /\ ~t.none
        /\ \E r \in Idx, c \in Idx : call.slid[r][c] = 0
        /\ t.r \in Idx /\ t.c \in Idx
        /\ t.value \in {2, 4}
        /\ call.slid[t.r][t.c] = 0
        /\ grid[t.r][t.c] = t.value
        /\ \A r \in Idx, c \in Idx :
              (r # t.r \/ c # t.c) => grid[r][c] = call.slid[r][c]

\* two merges on a full board have freed two cells and the new tile, a 4,
\* has taken one of them
C25_Witness ==
  /\ call.op = "move" /\ call.ret.ok
  /\ TileCount(call.before.grid) = size * size
  /\ TileCount(call.slid) = size * size - 2
  /\ TileCount(grid) = size * size - 1
  /\ call.ret.newTile.value = 4

\* ------------------------------------------------------------------
\* The App around the engine (AppSpec)
\* ------------------------------------------------------------------

\* C21 (as claimed): while the presentation of a move is animating, no step
\* of the App changes the engine: no move, no undo, no init through New Game
\* and no continueGame is applied before the animation has ended
C21_NoEngineCallWhileAnimating ==
  [][app.animating => UNCHANGED engine]_vars

\* C22 (as claimed): a write the store refuses leaves the engine as it would
\* be had every write been stored. The grid, score, game state, wonBefore,
\* moveId and history of a step never read the store; bestScore is read back
\* from it by newGame, where it has to be the best score a store that took
\* every write would hold
C22_WriteFailureKeepsEngine ==
  app.last.op = "newGame" => bestScore = app.idealBest

\* C27 (as claimed): between two New Games the gamesPlayed statistic grows
\* by at most one, the count of the New Game that ends the game included
C27_GameCountedOnce ==
  /\ app.counted <= 1
  /\ app.last.op = "newGame" => app.last.counted <= 1

====
